---- MODULE Spec2Model ----
(***************************************************************************)
(* Model of stitch.py: the Organizer (organize_dji_videos), the grouping   *)
(* function (group_sequences) and the Sequence Stitcher                    *)
(* (stitch_day_directory, run_concat_and_cleanup, main).                   *)
(*                                                                         *)
(* Time is counted in whole seconds from 10:00:00 of the day, so a start   *)
(* time t stands for the HHMMSS token "10000t" and a duration d for d      *)
(* seconds (ffprobe prints durations with microsecond precision, which     *)
(* timedelta keeps exactly; the unit of the model is immaterial).  Day     *)
(* directories are root/2024/01/0<d>.                                      *)
(***************************************************************************)
EXTENDS Integers, Sequences, FiniteSets, Bags, TLC

(***************************************************************************)
(* Bounds of the model.                                                    *)
(***************************************************************************)
MaxClips == 4
MaxDayClips == 2
MaxSrc == 3
MaxLen == 3
MaxStart == 3
MaxDur == 2
MaxOrdClips == 3

\* start times: 10:00:00 and 10:00:01
Times == {0, 1}
\* values of --gap (argparse type=float accepts any sign)
GapValues == {0, -1}

(***************************************************************************)
(* Files of a day directory.  A name is one of                             *)
(*   plain  "10000t.mp4" / "10000t.mkv"        (the Organizer's output)    *)
(*   final  "20240101_10000t.mp4"              (a merged output)           *)
(*   temp   "stitched_20240101_10000t.mp4"     (a temporary output)        *)
(*   other  "clip.mp4"                         (no HHMMSS token)           *)
(***************************************************************************)
Names ==
    [kind : {"plain"}, t : Times, ext : {"mp4", "mkv"}]
      \cup [kind : {"final", "temp"}, t : Times, ext : {"mp4"}]
      \cup [kind : {"other"}, t : {0}, ext : {"mp4"}]

\* stream signatures as probe_stream_info returns them
Sig(c, p, x) == [codec_name |-> c, pix_fmt |-> p, color_transfer |-> x]
SigBase == Sig("hevc", "yuv420p", "bt709")
SigPix == Sig("hevc", "yuv420p10le", "bt709")
SigCodec == Sig("h264", "yuv420p", "bt709")
SigTransfer == Sig("hevc", "yuv420p", "arib-std-b67")
NoSig == Sig("", "", "")

Absent == [kind |-> "none", dur |-> 0, sig |-> NoSig]
File(d, s) == [kind |-> "orig", dur |-> d, sig |-> s]

\* durations and signatures the initial directories are drawn from
Durs == {0, 2}
OddSigs == {SigPix, SigCodec, SigTransfer}

\* a directory is a function from the names of its files to their contents
EmptyDir == <<>>
Present(dir) == DOMAIN dir
Look(dir, n) == IF n \in DOMAIN dir THEN dir[n] ELSE Absent
Put(dir, n, c) ==
    [m \in DOMAIN dir \cup {n} |-> IF m = n THEN c ELSE dir[m]]
Remove(dir, S) == [m \in DOMAIN dir \ S |-> dir[m]]

\* the directory holding the files S with durations dur, all of signature
\* SigBase but the file odd (if it is one of S), of signature sg
MakeDir(S, dur, odd, sg) ==
    [n \in S |-> File(dur[n], IF n = odd THEN sg ELSE SigBase)]

NoName == [kind |-> "none", t |-> 0, ext |-> ""]

(***************************************************************************)
(* State.                                                                  *)
(***************************************************************************)
VARIABLES
    tree,        \* day index -> directory (name -> file content)
    max_gap,     \* args.gap
    pc,          \* "main", "runs", "done", "aborted"
    day,         \* index of the day directory main is at
    clips,       \* stitch_day_directory: clips, sorted by start time
    durations,   \* stitch_day_directory: durations, same order
    seqs,        \* stitch_day_directory: runs (0-based index lists)
    si,          \* position of `for seq in seqs` (1-based)
    stitched,    \* stitch_day_directory: stitched
    total,       \* main: total
    listFiles,   \* the concat list files lying in the temp directory
    pass,        \* number of the invocation of the program
    \* history variables (read by the properties only)
    scan,        \* [pass, day] of the current (or last) day pass
    dir0,        \* the day directory when that day pass began
    outcome,     \* outcome of each run the current pass has been through
    calls,       \* runs handed to the concat collaborator in this pass
    lastRun,     \* the last run_concat_and_cleanup call
    overlap,     \* a run with overlapping clips has been merged
    \* the Organizer, and the inputs and results of the pure functions
    org,         \* organize_dji_videos: the files, the loop, the count
    grp,         \* group_sequences: arguments and result
    ord          \* two directories of the same clips and their partitions

stitchVars ==
    <<tree, max_gap, pc, day, clips, durations, seqs, si, stitched, total,
      listFiles, pass, scan, dir0, outcome, calls, lastRun, overlap>>
others == <<org, grp, ord>>
vars == <<stitchVars, others>>

Run(paths, start, d, list, result, before) ==
    [paths |-> paths, start |-> start, day |-> d, list |-> list,
     result |-> result, before |-> before]
NoRun == Run(<<>>, 0, 0, <<>>, "none", EmptyDir)
NoScan == [pass |-> 0, day |-> 0]

(***************************************************************************)
(* Discovery: lines 169-193.                                               *)
(***************************************************************************)
\* time_part: the first "_"-separated segment of the stem that is 6 digits
HasTimestamp(n) == n.kind # "other"
StartOf(n) == n.t

\* position of a name in sorted(day_dir.glob("*.ext")): string order of
\* "10000t..." < "20240101_..." < "clip..." < "stitched_..."
KindRank(k) ==
    CASE k = "plain" -> 0 [] k = "final" -> 1 [] k = "other" -> 2
      [] k = "temp" -> 3
FileRank(n) == KindRank(n.kind) * Cardinality(Times) + n.t

RECURSIVE SortedByName(_)
SortedByName(S) ==
    IF S = {} THEN <<>>
    ELSE LET m == CHOOSE x \in S : \A y \in S : FileRank(x) <= FileRank(y)
         IN <<m>> \o SortedByName(S \ {m})

Glob(dir, ext) == {n \in Present(dir) : n.ext = ext}

Discover(dir) ==
    SelectSeq(SortedByName(Glob(dir, "mp4")) \o SortedByName(Glob(dir, "mkv")),
              HasTimestamp)

(***************************************************************************)
(* Chronological ordering: lines 195-198, sorted() is stable.              *)
(***************************************************************************)
RECURSIVE InsertByStart(_, _)
InsertByStart(x, s) ==
    IF s = <<>> THEN <<x>>
    ELSE IF StartOf(Head(s)) <= StartOf(x)
         THEN <<Head(s)>> \o InsertByStart(x, Tail(s))
         ELSE <<x>> \o s

RECURSIVE SortByStart(_)
SortByStart(s) ==
    IF s = <<>> THEN <<>>
    ELSE InsertByStart(s[Len(s)], SortByStart(SubSeq(s, 1, Len(s) - 1)))

(***************************************************************************)
(* group_sequences: lines 98-116.  Indexes are the code's, from 0.         *)
(***************************************************************************)
At(s, i) == s[i + 1]

Gap(starts, durs, i) == At(starts, i) - (At(starts, i - 1) + At(durs, i - 1))

RECURSIVE GroupLoop(_, _, _, _, _, _, _)
GroupLoop(i, n, starts, durs, g, acc, current) ==
    IF i >= n THEN Append(acc, current)
    ELSE IF Gap(starts, durs, i) <= g
         THEN GroupLoop(i + 1, n, starts, durs, g, acc, Append(current, i))
         ELSE GroupLoop(i + 1, n, starts, durs, g, Append(acc, current), <<i>>)

group_sequences(n, starts, durs, g) ==
    GroupLoop(1, n, starts, durs, g, <<>>, <<0>>)

StartsOf(cs) == [i \in 1..Len(cs) |-> StartOf(cs[i])]
DursOf(dir, cs) == [i \in 1..Len(cs) |-> dir[cs[i]].dur]

(***************************************************************************)
(* run_concat_and_cleanup: lines 131-162.                                  *)
(***************************************************************************)
TempName(start) == [kind |-> "temp", t |-> start, ext |-> "mp4"]
FinalName(start) == [kind |-> "final", t |-> start, ext |-> "mp4"]

RECURSIVE SumDur(_, _)
SumDur(dir, paths) ==
    IF paths = <<>> THEN 0
    ELSE dir[Head(paths)].dur + SumDur(dir, Tail(paths))

Range(s) == {s[i] : i \in 1..Len(s)}

\* what the concat collaborator writes on success: a stream copy of the
\* sources, in order
ConcatOutput(dir, paths) ==
    [kind |-> "merged", dur |-> SumDur(dir, paths), sig |-> dir[paths[1]].sig]

Partial == [kind |-> "partial", dur |-> 0, sig |-> NoSig]

\* the sources are kept
UnlinkNothing(dir, paths) == dir

\* lines 150-157: unlink every source, a missing one is tolerated
Unlink(dir, paths) == Remove(dir, Range(paths))

\* line 160: temp_path.replace(final_path)
Replace(dir, from, to) == Put(Remove(dir, {from}), to, dir[from])

\* the directory after ffmpeg has written its output (-y: overwrite)
AfterConcat(dir, paths, start) ==
    Put(dir, TempName(start), ConcatOutput(dir, paths))

\* check=True left out: the failure goes unnoticed and the sources are
\* unlinked
AfterFailedConcatUnlinks(dir, paths, start) ==
    {Remove(dir, Range(paths)),
     Remove(Put(dir, TempName(start), Partial), Range(paths))}

\* line 148: the directories a failed ffmpeg run can leave, nothing written
\* or a partial temporary output; check=True raises before any deletion
AfterFailedConcat(dir, paths, start) ==
    {dir, Put(dir, TempName(start), Partial)}

\* lines 205-212
SeqPaths(cs, seq) == [k \in 1..Len(seq) |-> At(cs, seq[k])]

\* lines 213-217
Mismatch(info, first) ==
    \/ info.codec_name # first.codec_name
    \/ info.pix_fmt # first.pix_fmt
    \/ info.color_transfer # first.color_transfer

Mismatches(dir, paths) ==
    {k \in 2..Len(paths) : Mismatch(dir[paths[k]].sig, dir[paths[1]].sig)}

\* line 203
TooShort(seq) == Len(seq) < 2

(***************************************************************************)
(* Initial states: the tree the Organizer left.  Either one day directory  *)
(* of at most MaxClips clips under any of the names, or two day            *)
(* directories of at most MaxDayClips files each, of one signature, among  *)
(* them a file without timestamp.                                          *)
(***************************************************************************)
ClipNames == {n \in Names : HasTimestamp(n)}

InitRest ==
    /\ day = 1
    /\ clips = <<>>
    /\ durations = <<>>
    /\ seqs = <<>>
    /\ si = 1
    /\ stitched = 0
    /\ total = 0
    /\ listFiles = {}
    /\ pass = 1
    /\ scan = NoScan
    /\ dir0 = EmptyDir
    /\ outcome = <<>>
    /\ calls = {}
    /\ lastRun = NoRun
    /\ overlap = FALSE

SmallNames ==
    {n \in Names : n.t = 0 /\ n.kind \in {"plain", "other"}}

InitOneDay ==
    \E S \in SUBSET ClipNames :
        /\ Cardinality(S) <= MaxClips
        /\ \E dur \in [S -> Durs], odd \in S \cup {NoName} :
              \E sg \in IF odd = NoName THEN {SigBase} ELSE OddSigs :
                  tree = <<MakeDir(S, dur, odd, sg)>>

InitTwoDays ==
    \E S1, S2 \in SUBSET SmallNames :
        /\ Cardinality(S1) <= MaxDayClips
        /\ Cardinality(S2) <= MaxDayClips
        /\ \E dur1 \in [S1 -> Durs], dur2 \in [S2 -> Durs] :
              tree = <<MakeDir(S1, dur1, NoName, SigBase),
                       MakeDir(S2, dur2, NoName, SigBase)>>

Idle == [pc |-> "idle"]

\* the Stitcher at rest, for the specifications of the other parts
StitchIdle ==
    /\ tree = <<EmptyDir>>
    /\ max_gap = 0
    /\ pc = "idle"
    /\ InitRest

Init ==
    /\ InitOneDay \/ InitTwoDays
    /\ max_gap \in GapValues
    /\ pc = "main"
    /\ InitRest
    /\ org = Idle
    /\ grp = Idle
    /\ ord = Idle

(***************************************************************************)
(* stitch_day_directory, lines 165-201: discovery, sort, grouping.         *)
(***************************************************************************)
NumDays == Len(tree)

StitchDayStart ==
    /\ pc = "main"
    /\ day <= NumDays
    /\ LET dir == tree[day]
           cs == SortByStart(Discover(dir))
       IN  /\ clips' = cs
           /\ durations' = DursOf(dir, cs)
           /\ seqs' = group_sequences(Len(cs), StartsOf(cs), DursOf(dir, cs),
                                      max_gap)
           /\ dir0' = dir
    /\ scan' = [pass |-> pass, day |-> day]
    /\ si' = 1
    /\ stitched' = 0
    /\ outcome' = <<>>
    /\ calls' = {}
    /\ pc' = "runs"
    /\ UNCHANGED <<tree, max_gap, day, total, listFiles, pass, lastRun,
                   overlap>>
    /\ UNCHANGED others

(***************************************************************************)
(* One iteration of `for seq in seqs`, lines 202-226.                      *)
(***************************************************************************)
InLoop == pc = "runs" /\ si <= Len(seqs)
CurSeq == seqs[si]
CurPaths == SeqPaths(clips, CurSeq)
CurStart == StartOf(CurPaths[1])
Probeable(dir, paths) == \A k \in 1..Len(paths) : paths[k] \in Present(dir)

\* lines 203-204
RunTooShort ==
    /\ InLoop
    /\ TooShort(CurSeq)
    /\ si' = si + 1
    /\ outcome' = Append(outcome, "short")
    /\ UNCHANGED <<tree, max_gap, pc, day, clips, durations, seqs, stitched,
                   total, listFiles, pass, scan, dir0, calls, lastRun, overlap>>
    /\ UNCHANGED others

\* line 207: ffprobe fails on a path that is gone, check=True raises
RunProbeFails ==
    /\ InLoop
    /\ ~TooShort(CurSeq)
    /\ ~Probeable(tree[day], CurPaths)
    /\ pc' = "aborted"
    /\ outcome' = Append(outcome, "probe_failed")
    /\ UNCHANGED <<tree, max_gap, day, clips, durations, seqs, si, stitched,
                   total, listFiles, pass, scan, dir0, calls, lastRun, overlap>>
    /\ UNCHANGED others

\* lines 213-219
RunMismatch ==
    /\ InLoop
    /\ ~TooShort(CurSeq)
    /\ Probeable(tree[day], CurPaths)
    /\ Mismatches(tree[day], CurPaths) # {}
    /\ si' = si + 1
    /\ outcome' = Append(outcome, "mismatch")
    /\ UNCHANGED <<tree, max_gap, pc, day, clips, durations, seqs, stitched,
                   total, listFiles, pass, scan, dir0, calls, lastRun, overlap>>
    /\ UNCHANGED others

Mergeable ==
    /\ InLoop
    /\ ~TooShort(CurSeq)
    /\ Probeable(tree[day], CurPaths)
    /\ Mismatches(tree[day], CurPaths) = {}

\* make_concat_file, lines 119-128: a fresh file of the temp directory,
\* NamedTemporaryFile(delete=False), named here by the call that made it
ListFile == <<pass, day, si>>

HasOverlap(seq) ==
    \E k \in 2..Len(seq) : Gap(StartsOf(clips), durations, seq[k]) < 0

\* lines 220-226 and 131-162, ffmpeg exits 0
RunConcatOk ==
    /\ Mergeable
    /\ LET dir == tree[day]
           written == AfterConcat(dir, CurPaths, CurStart)
           unlinked == Unlink(written, CurPaths)
           temp == TempName(CurStart)
       IN  /\ listFiles' = listFiles \cup {ListFile}
           /\ calls' = calls \cup {CurPaths}
           /\ overlap' = (overlap \/ (pass = 1 /\ HasOverlap(CurSeq)))
           /\ IF temp \notin Present(unlinked)
              THEN \* line 160 raises FileNotFoundError
                   /\ tree' = [tree EXCEPT ![day] = unlinked]
                   /\ pc' = "aborted"
                   /\ outcome' = Append(outcome, "rename_failed")
                   /\ lastRun' = Run(CurPaths, CurStart, day, ListFile,
                                     "rename_failed", dir)
                   /\ UNCHANGED <<si, stitched>>
              ELSE /\ tree' = [tree EXCEPT ![day] =
                                 Replace(unlinked, temp, FinalName(CurStart))]
                   /\ si' = si + 1
                   /\ stitched' = stitched + 1
                   /\ outcome' = Append(outcome, "merged")
                   /\ lastRun' = Run(CurPaths, CurStart, day, ListFile,
                                     "merged", dir)
                   /\ UNCHANGED pc
    /\ UNCHANGED <<max_gap, day, clips, durations, seqs, total, pass, scan,
                   dir0>>
    /\ UNCHANGED others

\* lines 138-148, ffmpeg exits non-zero: check=True raises
\* CalledProcessError, which nothing catches
RunConcatFails ==
    /\ Mergeable
    /\ \E left \in AfterFailedConcat(tree[day], CurPaths, CurStart) :
          tree' = [tree EXCEPT ![day] = left]
    /\ listFiles' = listFiles \cup {ListFile}
    /\ calls' = calls \cup {CurPaths}
    /\ pc' = "aborted"
    /\ outcome' = Append(outcome, "concat_failed")
    /\ lastRun' = Run(CurPaths, CurStart, day, ListFile, "concat_failed",
                      tree[day])
    /\ UNCHANGED <<max_gap, day, clips, durations, seqs, si, stitched, total,
                   pass, scan,
                   dir0, overlap>>
    /\ UNCHANGED others

\* line 227 and main, lines 249-252
StitchDayReturn ==
    /\ pc = "runs"
    /\ si > Len(seqs)
    /\ total' = total + stitched
    /\ day' = day + 1
    /\ pc' = "main"
    /\ UNCHANGED <<tree, max_gap, clips, durations, seqs, si, stitched,
                   listFiles, pass, scan, dir0, outcome, calls, lastRun, overlap>>
    /\ UNCHANGED others

\* main, line 254
MainDone ==
    /\ pc = "main"
    /\ day > NumDays
    /\ pc' = "done"
    /\ UNCHANGED <<tree, max_gap, day, clips, durations, seqs, si, stitched,
                   total, listFiles, pass, scan, dir0, outcome, calls, lastRun,
                   overlap>>
    /\ UNCHANGED others

\* the program is run again on the tree it left (main, lines 230-254)
Rerun ==
    /\ pc = "done"
    /\ pass = 1
    /\ pass' = 2
    /\ day' = 1
    /\ total' = 0
    /\ pc' = "main"
    /\ UNCHANGED <<tree, max_gap, clips, durations, seqs, si, stitched,
                   listFiles, scan, dir0, outcome, calls, lastRun, overlap>>
    /\ UNCHANGED others

Next ==
    \/ StitchDayStart
    \/ RunTooShort
    \/ RunProbeFails
    \/ RunMismatch
    \/ RunConcatOk
    \/ RunConcatFails
    \/ StitchDayReturn
    \/ MainDone
    \/ Rerun

Spec == Init /\ [][Next]_vars

(***************************************************************************)
(* Properties of the Stitcher.                                             *)
(***************************************************************************)
RunPaths(j) == SeqPaths(clips, seqs[j])
\* the runs of the current day pass (an empty directory yields the run <<0>>
\* of no clip)
RunIds == IF clips = <<>> THEN {} ELSE 1..Len(seqs)
ScanDir == tree[scan.day]
Untouched(p) == p \in Present(ScanDir) /\ ScanDir[p] = dir0[p]
LastOutcome == IF outcome = <<>> THEN "none" ELSE outcome[Len(outcome)]
Merged == {j \in 1..Len(outcome) : outcome[j] = "merged"}

\* C1: when the concat collaborator fails, every source path of the run
\* still exists and the file at the final name <start>.mp4 is the one that
\* was there before the call (nothing was created or replaced there).
C1_ConcatFailureKeepsSources ==
    lastRun.result = "concat_failed" =>
        /\ \A p \in Range(lastRun.paths) : p \in Present(tree[lastRun.day])
        /\ Look(tree[lastRun.day], FinalName(lastRun.start))
             = Look(lastRun.before, FinalName(lastRun.start))

\* a failed concat that left a partial temporary output
C1_Witness ==
    /\ lastRun.result = "concat_failed"
    /\ Look(tree[lastRun.day], TempName(lastRun.start)) = Partial

\* C2: after the concat collaborator fails for a run, the program goes on
\* with the remaining runs of the day and the remaining day directories: it
\* never stops on a concat failure while runs or days remain.
C2_ConcatFailureRecoverable ==
    ~ /\ lastRun.result = "concat_failed"
      /\ pc = "aborted"
      /\ (si < Len(seqs) \/ day < NumDays)

\* C3: when run_concat_and_cleanup has returned from a successful merge,
\* every source path of the run is gone, the output lies at the name made of
\* the first clip's start time, and no temporary artifact of the merge is
\* left: neither stitched_<start>.mp4 nor the concat list file.
JustMerged == pc = "runs" /\ LastOutcome = "merged"

C3_MergeLeavesOnlyOutput ==
    JustMerged =>
        /\ \A p \in Range(lastRun.paths) : p \notin Present(tree[lastRun.day])
        /\ Look(tree[lastRun.day],
                FinalName(StartOf(lastRun.paths[1]))).kind = "merged"
        /\ TempName(lastRun.start) \notin Present(tree[lastRun.day])
        /\ lastRun.list \notin listFiles

\* C4: a run of two or more clips of which one differs from the first in
\* codec, pixel format or color transfer never triggers a merge: it is not
\* handed to the concat collaborator, none of its files is deleted, renamed
\* or overwritten during the day pass, it is not counted as stitched, and
\* the pass goes on with the next run.
Heterogeneous(j) ==
    \E p \in Range(RunPaths(j)) : dir0[p].sig # dir0[RunPaths(j)[1]].sig

MismatchedRunsUntouched ==
    /\ \A j \in RunIds :
          Len(seqs[j]) >= 2 /\ Heterogeneous(j) =>
              /\ RunPaths(j) \notin calls
              /\ \A p \in Range(RunPaths(j)) : Untouched(p)
              /\ j <= Len(outcome) => outcome[j] = "mismatch"
    /\ stitched = Cardinality(Merged)
    /\ LastOutcome = "mismatch" => pc # "aborted"

C4_MismatchNeverMerges == scan.pass > 0 => MismatchedRunsUntouched

\* what the code achieves: the same for max_gap >= 0, where the clips of one
\* start time all fall in one run
MismatchNeverMerges_NonNegGap ==
    scan.pass > 0 /\ max_gap >= 0 => MismatchedRunsUntouched

\* a mismatched run was skipped and a later run of the pass was merged
MismatchSkippedThenMerge ==
    /\ max_gap >= 0
    /\ \E j \in RunIds : \E k \in Merged :
          j < k /\ Len(seqs[j]) >= 2 /\ Heterogeneous(j)

\* C6: once a pass over a day directory has completed, a second pass over
\* the directory it left merges nothing, deletes and renames nothing and
\* returns 0.
SecondPassIdle ==
    /\ calls = {}
    /\ stitched = 0
    /\ ScanDir = dir0
    /\ pc # "aborted"
    /\ \A j \in 1..Len(outcome) : outcome[j] \in {"short", "mismatch"}

C6_StitcherIdempotent == scan.pass = 2 => SecondPassIdle

\* C6 as amended: the same, provided no run merged by the first pass had
\* two consecutive clips that overlap (a negative gap).
C6_StitcherIdempotent_NoOverlap == scan.pass = 2 /\ ~overlap => SecondPassIdle

\* the second pass has gone through a directory in which the first pass
\* merged a run and left other clips beside the output
C6_Witness ==
    /\ scan.pass = 2
    /\ ~overlap
    /\ pc = "done"
    /\ \E n \in Present(dir0) : dir0[n].kind = "merged"
    /\ Len(clips) >= 2

\* C8: a clip that grouping put in a run of length 1 is never handed to the
\* concat collaborator, and its file is the same at the same path during and
\* after the pass: not deleted, not overwritten by the temporary output or
\* the final rename of another run.
SingleRunsUntouched ==
    \A j \in RunIds :
        Len(seqs[j]) = 1 =>
            /\ \A c \in calls : RunPaths(j)[1] \notin Range(c)
            /\ Untouched(RunPaths(j)[1])

C8_SingleClipUntouched == scan.pass > 0 => SingleRunsUntouched

\* what the code achieves: the same for max_gap >= 0
SingleClipUntouched_NonNegGap ==
    scan.pass > 0 /\ max_gap >= 0 => SingleRunsUntouched

\* a pass that ended after merging a run, beside a run of length 1 whose
\* clip bears the name of a merged or temporary output
SingleBesideMerge ==
    /\ max_gap >= 0
    /\ pc = "main"
    /\ Merged # {}
    /\ \E j \in RunIds :
          Len(seqs[j]) = 1 /\ RunPaths(j)[1].kind \in {"final", "temp"}

(***************************************************************************)
(* The Organizer: organize_dji_videos, lines 40-66, as main calls it       *)
(* (line 239).  A source file is DJI_2024010<date>100000_000<ctr>_D.<ext>  *)
(* somewhere under the root, or DJI_notes.mp4, which the glob matches and  *)
(* ORG_PATTERN does not.  A destination is                                 *)
(* root/2024/01/0<date>/100000[_<n>].<ext>.                                *)
(***************************************************************************)
DefaultPattern == "DJI_*.[mM][pP]4"
Patterns == {DefaultPattern, "DJI_*"}

SrcFiles ==
    [date : {1, 2}, ext : {"mp4", "MP4", "mkv"}, ctr : {1, 2}, conv : {TRUE}]
      \cup {[date |-> 1, ext |-> "mp4", ctr |-> 1, conv |-> FALSE]}

\* m.group('ext').lower(), line 52
Lower(e) == CASE e = "MP4" -> "mp4" [] e = "MKV" -> "mkv" [] OTHER -> e

\* root.rglob(pattern), line 46
GlobMatches(pattern, f) ==
    \/ pattern = "DJI_*"
    \/ pattern = DefaultPattern /\ Lower(f.ext) = "mp4"

\* ORG_PATTERN.match(src.name), lines 23-26 and 49
OrgPatternMatches(f) == f.conv /\ Lower(f.ext) \in {"mp4", "mkv"}

DestName(d, e, n) == [date |-> d, ext |-> e, n |-> n]
Occupied(dest) == {DestName(x.date, x.ext, x.n) : x \in dest}

\* lines 56-61: the suffix of the destination, 0 for none
RECURSIVE CounterLoop(_, _, _, _)
CounterLoop(occ, d, e, counter) ==
    IF DestName(d, e, counter) \in occ
    THEN CounterLoop(occ, d, e, counter + 1)
    ELSE counter

\* an `if` in place of the `while` of line 59
FreeSuffixIf(occ, d, e) ==
    IF DestName(d, e, 0) \in occ THEN 1 ELSE 0

FreeSuffix(occ, d, e) ==
    IF DestName(d, e, 0) \in occ THEN CounterLoop(occ, d, e, 1) ELSE 0

Entry(d, e, n, f) == [date |-> d, ext |-> e, n |-> n, file |-> f]
Old == [date |-> 0, ext |-> "", ctr |-> 0, conv |-> FALSE]

\* shutil.move, line 62 (a rename, which replaces a file lying at dest)
MoveTo(dest, d, e, n, f) ==
    {x \in dest : DestName(x.date, x.ext, x.n) # DestName(d, e, n)}
      \cup {Entry(d, e, n, f)}

InitOrg ==
    /\ \E S \in SUBSET SrcFiles, pattern \in Patterns, pre \in SUBSET {0, 1} :
          /\ Cardinality(S) <= MaxSrc
          /\ LET dest == {Entry(1, "mp4", n, Old) : n \in pre}
             IN  org = [pc |-> "organize", pattern |-> pattern, src |-> S,
                        seen |-> {}, dest |-> dest, count |-> 0,
                        moved |-> <<>>, src0 |-> S, dest0 |-> dest]
    /\ grp = Idle
    /\ ord = Idle
    /\ StitchIdle

Yielded == {f \in org.src \ org.seen : GlobMatches(org.pattern, f)}

\* lines 49-51: `continue`
OrgSkip ==
    /\ org.pc = "organize"
    /\ \E f \in Yielded :
          /\ ~OrgPatternMatches(f)
          /\ org' = [org EXCEPT !.seen = @ \cup {f}]
    /\ UNCHANGED <<stitchVars, grp, ord>>

\* lines 52-63
OrgMove ==
    /\ org.pc = "organize"
    /\ \E f \in Yielded :
          /\ OrgPatternMatches(f)
          /\ LET e == Lower(f.ext)
                 n == FreeSuffix(Occupied(org.dest), f.date, e)
             IN  org' = [org EXCEPT
                           !.src = @ \ {f},
                           !.dest = MoveTo(@, f.date, e, n, f),
                           !.count = @ + 1,
                           !.moved = Append(@, Entry(f.date, e, n, f))]
    /\ UNCHANGED <<stitchVars, grp, ord>>

\* line 66
OrgReturn ==
    /\ org.pc = "organize"
    /\ Yielded = {}
    /\ org' = [org EXCEPT !.pc = "organized"]
    /\ UNCHANGED <<stitchVars, grp, ord>>

NextOrg == OrgSkip \/ OrgMove \/ OrgReturn

SpecOrg == InitOrg /\ [][NextOrg]_vars

(***************************************************************************)
(* Properties of the Organizer.                                            *)
(***************************************************************************)
Organized == org.pc = "organized"
Convention(f) == f.conv
PlacesOf(f) == {x \in org.dest : x.file = f}

\* C7: once the Organizer has run under the default --pattern, every file
\* whose name follows the source convention (mp4 or mkv, in either case)
\* has left its source path and lies at exactly one destination
\* 100000[_N].<ext lowercased> of its date; no two files lie at one
\* destination, no file that lay there before is lost, the number of files
\* is conserved.
C7_OrganizerMovesEveryClip ==
    Organized /\ org.pattern = DefaultPattern =>
        /\ \A f \in org.src0 :
              Convention(f) =>
                  /\ f \notin org.src
                  /\ Cardinality(PlacesOf(f)) = 1
                  /\ \A x \in PlacesOf(f) :
                        x.date = f.date /\ x.ext = Lower(f.ext)
        /\ Cardinality(Occupied(org.dest)) = Cardinality(org.dest)
        /\ org.dest0 \subseteq org.dest
        /\ Cardinality(org.dest) + Cardinality(org.src)
             = Cardinality(org.dest0) + Cardinality(org.src0)

\* C9: each moved file takes the first free name of the sequence
\* 100000.ext, 100000_1.ext, 100000_2.ext, ... and no file lying at a
\* destination is overwritten; so of N files of one base destination whose
\* directory held none of these names beforehand, the k-th moved takes
\* suffix k-1 (none, _1, ..., _{N-1}).
SameBase(x, y) == x.date = y.date /\ x.ext = y.ext
TakenBefore(k) ==
    Occupied(org.dest0)
      \cup {DestName(org.moved[i].date, org.moved[i].ext, org.moved[i].n) :
              i \in 1..(k - 1)}
EarlierOfBase(k) ==
    {i \in 1..(k - 1) : SameBase(org.moved[i], org.moved[k])}
FreshBase(x) == \A y \in org.dest0 : ~SameBase(x, y)

C9_FirstFreeSuffix ==
    /\ \A k \in 1..Len(org.moved) :
          LET m == org.moved[k]
          IN  /\ DestName(m.date, m.ext, m.n) \notin TakenBefore(k)
              /\ \A j \in 0..(m.n - 1) :
                    DestName(m.date, m.ext, j) \in TakenBefore(k)
              /\ FreshBase(m) => m.n = Cardinality(EarlierOfBase(k))
              /\ m \in org.dest
    /\ org.dest0 \subseteq org.dest

\* three files of one base destination were moved into a directory that
\* held none of the names, and a file was moved to a suffixed name past a
\* file that lay there beforehand
C9_Witness ==
    /\ Organized
    /\ \E k \in 1..Len(org.moved) :
          FreshBase(org.moved[k]) /\ org.moved[k].n = 1
    /\ \E k \in 1..Len(org.moved) :
          ~FreshBase(org.moved[k]) /\ org.moved[k].n = 2

(***************************************************************************)
(* group_sequences on its own: any chronologically sorted list of at most  *)
(* MaxLen clips, as stitch_day_directory passes it (line 200).             *)
(***************************************************************************)
GroupGaps == {-1, 0, 1, 2}
IsSorted(s) == \A i \in 1..(Len(s) - 1) : s[i] <= s[i + 1]

InitGroup ==
    /\ \E n \in 0..MaxLen :
          \E starts \in [1..n -> 0..MaxStart], durs \in [1..n -> 0..MaxDur],
             g \in GroupGaps :
              /\ IsSorted(starts)
              /\ grp = [pc |-> "call", n |-> n, starts |-> starts,
                        durs |-> durs, max_gap |-> g, seqs |-> <<>>]
    /\ org = Idle
    /\ ord = Idle
    /\ StitchIdle

GroupCall ==
    /\ grp.pc = "call"
    /\ grp' = [grp EXCEPT
                 !.pc = "returned",
                 !.seqs = group_sequences(grp.n, grp.starts, grp.durs,
                                          grp.max_gap)]
    /\ UNCHANGED <<stitchVars, org, ord>>

NextGroup == GroupCall

SpecGroup == InitGroup /\ [][NextGroup]_vars

RECURSIVE Flatten(_)
Flatten(ss) == IF ss = <<>> THEN <<>> ELSE Head(ss) \o Flatten(Tail(ss))

\* the runs are a partition of the indexes 0..n-1 into contiguous runs, cut
\* exactly where the gap exceeds max_gap
IsGapPartition(runs, n, starts, durs, g) ==
    /\ Flatten(runs) = [k \in 1..n |-> k - 1]
    /\ \A j \in 1..Len(runs) :
          /\ runs[j] # <<>>
          /\ \A k \in 2..Len(runs[j]) : Gap(starts, durs, runs[j][k]) <= g
          /\ j > 1 => Gap(starts, durs, runs[j][1]) > g

\* C5: group_sequences returns a correct partition, for every sorted list
\* of clips and every max_gap: every index 0..n-1 lies in exactly one run,
\* the runs in order are 0..n-1, inside a run every gap is <= max_gap, and
\* at every boundary between runs the gap is > max_gap.
C5_GroupingIsPartition ==
    grp.pc = "returned" =>
        IsGapPartition(grp.seqs, grp.n, grp.starts, grp.durs, grp.max_gap)

\* the same for the lists that hold a clip, which is what the code achieves
GroupingIsPartitionOfNonEmpty ==
    grp.pc = "returned" /\ grp.n >= 1 =>
        IsGapPartition(grp.seqs, grp.n, grp.starts, grp.durs, grp.max_gap)

(***************************************************************************)
(* Discovery, sort and grouping (lines 169-200) of two day directories     *)
(* that hold the same clips under different names.                         *)
(***************************************************************************)
OrdNames == {n \in Names : n.kind \in {"plain", "final"}}
OrdGaps == {0, 1}

\* the (start_time, duration) of the clips of a directory, with multiplicity
ClipBag(dir, S) ==
    LET pair(n) == <<StartOf(n), dir[n].dur>>
    IN  [x \in {pair(n) : n \in S} |-> Cardinality({n \in S : pair(n) = x})]

\* the runs of a directory, each as the bag of its clips
RunsOf(dir, g) ==
    LET cs == SortByStart(Discover(dir))
        runs == group_sequences(Len(cs), StartsOf(cs), DursOf(dir, cs), g)
    IN  IF cs = <<>> THEN <<>>
        ELSE [j \in 1..Len(runs) |->
                ClipBag(dir, Range(SeqPaths(cs, runs[j])))]

InitOrder ==
    /\ \E SA, SB \in SUBSET OrdNames, g \in OrdGaps :
          /\ Cardinality(SA) <= MaxOrdClips
          /\ Cardinality(SB) = Cardinality(SA)
          /\ \E durA \in [SA -> Durs], durB \in [SB -> Durs] :
                LET A == MakeDir(SA, durA, NoName, SigBase)
                    B == MakeDir(SB, durB, NoName, SigBase)
                IN  /\ ClipBag(A, SA) = ClipBag(B, SB)
                    /\ ord = [pc |-> "call", A |-> A, B |-> B, max_gap |-> g,
                              runsA |-> <<>>, runsB |-> <<>>]
    /\ org = Idle
    /\ grp = Idle
    /\ StitchIdle

OrderGroupBoth ==
    /\ ord.pc = "call"
    /\ ord' = [ord EXCEPT !.pc = "returned",
                          !.runsA = RunsOf(ord.A, ord.max_gap),
                          !.runsB = RunsOf(ord.B, ord.max_gap)]
    /\ UNCHANGED <<stitchVars, org, grp>>

NextOrder == OrderGroupBoth

SpecOrder == InitOrder /\ [][NextOrder]_vars

\* C10: two day directories that hold the same multiset of
\* (start_time, duration) clips under different file names are grouped into
\* the same sequence of runs, each run the same multiset of clips, also when
\* clips share a start time.
C10_GroupingIgnoresFileNames ==
    ord.pc = "returned" => ord.runsA = ord.runsB

====
